---------------------------- MODULE Spec2Model ----------------------------
(***************************************************************************)
(* State-machine model of SocketService (services/socket.service.ts) and   *)
(* of the request handlers that are meant to call into it.                 *)
(*                                                                         *)
(* One action per handler step.  A handler that awaits the durable store   *)
(* is cut at the await: the part before and the part after are separate    *)
(* actions, and other handlers may run in between (Node's event loop).     *)
(* Code between two awaits runs atomically.                                *)
(***************************************************************************)
EXTENDS Naturals, Sequences, FiniteSets

\* ------------------------------------------------------------------ bounds

\* pending setTimeout handles per (socket, room) the model lets accumulate
MaxTimers == 2
\* joinRoom handlers of one socket suspended at UserRoom.findOne at a time
MaxPendingJoins == 1
\* Message documents ever created
MaxMessages == 1
\* updatePresence handlers of one socket suspended at the isOnline write
MaxPendingPresence == 1

\* ---------------------------------------------------------------- universe

None == "none"

\* socket ids; every transport connection gets a fresh id, so each connects once
Conns == {"c1", "c2"}
Rooms == {"r1", "r2"}
\* the order in which UserRoom.find returns a user's documents
RoomSeq == <<"r1", "r2">>
\* user documents present in the store
Users == {"u1", "u2", "u3"}
\* ids a correctly signed token can carry: "u0" is a user since deleted
TokenIds == Users \cup {"u0"}
\* what the handshake carries: no token, a token jwt.verify rejects, a valid one
Credentials == {"absent", "invalid"} \cup TokenIds
\* the handshakes each socket is tried with (sockets are interchangeable, so
\* the first is given fewer)
HandshakeOf(c) ==
    IF c = "c1" THEN {"absent", "u1"} ELSE {"invalid", "u0", "u1", "u2", "u3"}
MemberRoles == {"member", "admin", "moderator"}
\* the status an updatePresence event carries
Statuses == {"online", "away", "offline"}

\* the UserRoom documents with isActive: true (role by user and room):
\* u1 is in both rooms, u2 in r1 only, u3 in none
InitialUserRooms ==
    [u \in Users |->
        CASE u = "u1" -> [r \in Rooms |-> IF r = "r1" THEN "admin" ELSE "member"]
          [] u = "u2" -> [r \in Rooms |-> IF r = "r1" THEN "moderator" ELSE None]
          [] OTHER    -> [r \in Rooms |-> None]]

\* Room.createdBy: u1 created r1; r2 was created by a user who has left it
InitialCreators == [r \in Rooms |-> IF r = "r1" THEN "u1" ELSE None]

\* the users in the order the store returns their documents
UserSeq == <<"u1", "u2", "u3">>

VARIABLES
    connected,      \* socket.connected, per socket id
    authPc,         \* where authenticateSocket of the socket stands
    handshake,      \* handshake.auth.token of the socket: absent, invalid, or the id it carries
    discPc,         \* where handleDisconnect of the socket stands
    isOnline,       \* User.isOnline in the store
    userRoomDocs,   \* UserRoom documents with isActive: true
    userSessions,   \* socketId -> UserSession
    userSocketMap,  \* userId -> socketId
    activeRooms,    \* roomId -> ActiveRoom
    ioRooms,        \* the Socket.IO adapter's rooms: roomId -> socket ids
    timers,         \* pending typing timeouts per (socket, room)
    pendingJoin,    \* handleJoinRoom calls suspended at UserRoom.findOne
    messages,       \* Message documents by creation order
    pendingPresence,\* handleUpdatePresence calls suspended at the isOnline write
    jwtSessions,    \* the JWTSession document of each user's token
    createdBy,      \* Room.createdBy
    returned,       \* the values the call made in the last step returned
    lastOp,         \* the handler step taken last
    emitted         \* the events that step emitted, in order, with recipients

vars == <<connected, authPc, handshake, discPc, isOnline, userRoomDocs,
          userSessions, userSocketMap, activeRooms, ioRooms, timers,
          pendingJoin, messages, pendingPresence, jwtSessions, createdBy,
          returned, lastOp, emitted>>

\* ----------------------------------------------------------------- helpers

Range(s) == {s[i] : i \in 1..Len(s)}

\* new Map(), Map.set, Map.delete
EmptyMap == [x \in {} |-> None]
MapSet(m, k, v) == [x \in DOMAIN m \cup {k} |-> IF x = k THEN v ELSE m[x]]
MapDelete(m, k) == [x \in DOMAIN m \ {k} |-> m[x]]

\* Set.add / Set.delete on a Set that is iterated in insertion order
SetAdd(s, x) == IF x \in Range(s) THEN s ELSE Append(s, x)
SetDelete(s, x) ==
    LET keep(y) == y # x
    IN  SelectSeq(s, keep)

\* jwt.verify(token).id
Decoded(c) == handshake[c]

\* socket.userId: set by authenticateSocket once the user document is found
SocketUserId(c) ==
    IF authPc[c] \in {"setOnline", "presence", "done"} THEN Decoded(c) ELSE None

\* setupAuthenticatedSocketHandlers has run for the socket
HandlersRegistered(c) == authPc[c] \in {"presence", "done"}

\* an inbound event of socket c can arrive
Inbound(c) == connected[c] /\ HandlersRegistered(c)

Event(ev, to, room, userId, role, code) ==
    [ev |-> ev, to |-> to, room |-> room, userId |-> userId,
     role |-> role, code |-> code]

ErrorEvent(to, code) == Event("error", to, None, None, None, code)

\* socket.emit: reaches the socket while it is connected
SocketEmit(c) == IF connected[c] THEN {c} ELSE {}
\* io.to(room): every connected socket in the adapter's room
IoTo(io, r) == {x \in io[r] : connected[x]}
\* io.to(room) where socket.to(room) was meant: the sender is not excluded
SocketToIncludesSelf(io, c, r) == {x \in io[r] : connected[x]}
\* socket.to(room): the same, except the sending socket
SocketTo(io, c, r) == IoTo(io, r) \ {c}

Op(op, c, r) == [op |-> op, c |-> c, r |-> r]

\* the step's record: which handler step ran, what it emitted and what the
\* call returned to its caller
Returns(op, c, r, out, ret) ==
    /\ lastOp' = Op(op, c, r)
    /\ emitted' = out
    /\ returned' = ret

\* the record of a handler step, which returns nothing
Did(op, c, r, out) == Returns(op, c, r, out, <<>>)

\* a step that completes no handler and emits nothing
Idle == Did("await", None, None, <<>>)

\* UserRoom.findOne({userId, roomId, isActive: true}): the role, or None
FindUserRoom(u, r) == IF u \in DOMAIN userRoomDocs THEN userRoomDocs[u][r] ELSE None


\* clearTimeout of one pending handle of (c, r)
ClearTimeout(tm, c, r) ==
    [tm EXCEPT ![c][r] = IF @ > 0 THEN @ - 1 ELSE 0]

\* a presence broadcast to the rooms the user's sockets have joined in memory
BroadcastToJoinedRooms(u, online) ==
    LET isJoined(r) ==
            \E x \in DOMAIN userSessions :
                userSessions[x].userId = u /\ r \in Range(userSessions[x].rooms)
        userRooms == SelectSeq(RoomSeq, isJoined)
    IN  [i \in 1..Len(userRooms) |->
            Event(IF online THEN "userOnline" ELSE "userOffline",
                  IoTo(ioRooms, userRooms[i]), userRooms[i], u, None, None)]

\* broadcastUserPresence: one event per UserRoom document of the user, sent
\* with io.to(roomId); nothing when there is no document or no such user
BroadcastUserPresence(u, online) ==
    LET isMember(r) == FindUserRoom(u, r) # None
        userRooms == SelectSeq(RoomSeq, isMember)
    IN  IF Len(userRooms) = 0 THEN <<>>
        ELSE IF u \notin Users THEN <<>>
        ELSE [i \in 1..Len(userRooms) |->
                Event(IF online THEN "userOnline" ELSE "userOffline",
                      IoTo(ioRooms, userRooms[i]), userRooms[i], u, None, None)]

\* -------------------------------------------------------------------- Init

Init ==
    /\ connected = [c \in Conns |-> FALSE]
    /\ authPc = [c \in Conns |-> "none"]
    /\ handshake = [c \in Conns |-> None]
    /\ discPc = [c \in Conns |-> "none"]
    /\ isOnline = [u \in Users |-> FALSE]
    /\ userRoomDocs = InitialUserRooms
    /\ userSessions = EmptyMap
    /\ userSocketMap = EmptyMap
    /\ activeRooms = EmptyMap
    /\ ioRooms = [r \in Rooms |-> {}]
    /\ timers = [c \in Conns |-> [r \in Rooms |-> 0]]
    /\ pendingJoin = [c \in Conns |-> [r \in Rooms |-> 0]]
    /\ messages = <<>>
    /\ pendingPresence = [c \in Conns |-> [st \in Statuses |-> 0]]
    /\ jwtSessions = [u \in Users |-> "active"]
    /\ createdBy = InitialCreators
    /\ returned = <<>>
    /\ lastOp = Op("init", None, None)
    /\ emitted = <<>>

\* ---------------------------------------------------------- authentication

\* io.on("connection") -> authenticateSocket up to its first await, or to the
\* end when the token is missing or jwt.verify throws
Connect(c, cred) ==
    /\ authPc[c] = "none"
    /\ handshake' = [handshake EXCEPT ![c] = cred]
    /\ \/ /\ cred = "absent"
          /\ authPc' = [authPc EXCEPT ![c] = "failed"]
          /\ Did("authReject", c, None, <<ErrorEvent({c}, "AUTH_REQUIRED")>>)
          /\ UNCHANGED connected
       \/ /\ cred = "invalid"
          /\ authPc' = [authPc EXCEPT ![c] = "failed"]
          /\ Did("authReject", c, None, <<ErrorEvent({c}, "AUTH_FAILED")>>)
          /\ UNCHANGED connected
       \/ /\ cred \in TokenIds
          /\ connected' = [connected EXCEPT ![c] = TRUE]
          /\ authPc' = [authPc EXCEPT ![c] = "findUser"]
          /\ Idle
    /\ UNCHANGED <<discPc, isOnline, userRoomDocs, userSessions, userSocketMap,
                   activeRooms, ioRooms, timers, pendingJoin,
                   messages,
                   pendingPresence,
                   jwtSessions, createdBy>>

\* a not-found branch that forgets socket.disconnect()
AuthFindUserStaysConnected(c) ==
    /\ authPc[c] = "findUser"
    /\ IF Decoded(c) \notin Users
       THEN /\ authPc' = [authPc EXCEPT ![c] = "failed"]
            /\ Did("authReject", c, None,
                   <<ErrorEvent(SocketEmit(c), "USER_NOT_FOUND")>>)
       ELSE /\ authPc' = [authPc EXCEPT ![c] = "setOnline"]
            /\ Idle
    /\ UNCHANGED <<connected, handshake, discPc, isOnline, userRoomDocs,
                   userSessions, userSocketMap, activeRooms, ioRooms, timers,
                   pendingJoin, messages,
                   pendingPresence,
                   jwtSessions, createdBy>>

\* User.findById resolves: not found ends the connection, found sets
\* socket.userId / socket.user and starts the isOnline write
AuthFindUser(c) ==
    /\ authPc[c] = "findUser"
    /\ IF Decoded(c) \notin Users
       THEN /\ authPc' = [authPc EXCEPT ![c] = "failed"]
            /\ connected' = [connected EXCEPT ![c] = FALSE]
            /\ Did("authReject", c, None,
                   <<ErrorEvent(SocketEmit(c), "USER_NOT_FOUND")>>)
       ELSE /\ authPc' = [authPc EXCEPT ![c] = "setOnline"]
            /\ Idle
            /\ UNCHANGED connected
    /\ UNCHANGED <<handshake, discPc, isOnline, userRoomDocs, userSessions,
                   userSocketMap, activeRooms, ioRooms, timers, pendingJoin,
                   messages,
                   pendingPresence,
                   jwtSessions, createdBy>>

\* a registration that drops the session of the socket the user's route
\* pointed to
AuthRegisterEvictsPrior(c) ==
    /\ authPc[c] = "setOnline"
    /\ isOnline' = [isOnline EXCEPT ![Decoded(c)] = TRUE]
    /\ userSessions' =
          MapSet(IF Decoded(c) \in DOMAIN userSocketMap
                 THEN MapDelete(userSessions, userSocketMap[Decoded(c)])
                 ELSE userSessions,
                 c, [userId |-> Decoded(c), rooms |-> <<>>])
    /\ userSocketMap' = MapSet(userSocketMap, Decoded(c), c)
    /\ authPc' = [authPc EXCEPT ![c] = "presence"]
    /\ Did("authRegister", c, None, <<>>)
    /\ UNCHANGED <<connected, handshake, discPc, userRoomDocs, activeRooms,
                   ioRooms, timers, pendingJoin, messages, pendingPresence,
                   jwtSessions, createdBy>>

\* the isOnline write resolves: the session and the route are registered and
\* the socket's event handlers are set up; broadcastUserPresence starts
AuthRegister(c) ==
    /\ authPc[c] = "setOnline"
    /\ isOnline' = [isOnline EXCEPT ![Decoded(c)] = TRUE]
    /\ userSessions' = MapSet(userSessions, c, [userId |-> Decoded(c), rooms |-> <<>>])
    /\ userSocketMap' = MapSet(userSocketMap, Decoded(c), c)
    /\ authPc' = [authPc EXCEPT ![c] = "presence"]
    /\ Did("authRegister", c, None, <<>>)
    /\ UNCHANGED <<connected, handshake, discPc, userRoomDocs, activeRooms,
                   ioRooms, timers, pendingJoin,
                   messages,
                   pendingPresence,
                   jwtSessions, createdBy>>

\* the store queries of broadcastUserPresence resolve and it emits
AuthPresence(c) ==
    /\ authPc[c] = "presence"
    /\ authPc' = [authPc EXCEPT ![c] = "done"]
    /\ Did("authPresence", c, None, BroadcastUserPresence(Decoded(c), TRUE))
    /\ UNCHANGED <<connected, handshake, discPc, isOnline, userRoomDocs,
                   userSessions, userSocketMap, activeRooms, ioRooms, timers,
                   pendingJoin,
                   messages,
                   pendingPresence,
                   jwtSessions, createdBy>>

\* a store call of authenticateSocket rejects: the catch block
AuthStoreError(c) ==
    /\ authPc[c] \in {"findUser", "setOnline"}
    /\ authPc' = [authPc EXCEPT ![c] = "failed"]
    /\ connected' = [connected EXCEPT ![c] = FALSE]
    /\ Did("authError", c, None, <<ErrorEvent(SocketEmit(c), "AUTH_FAILED")>>)
    /\ UNCHANGED <<handshake, discPc, isOnline, userRoomDocs, userSessions,
                   userSocketMap, activeRooms, ioRooms, timers, pendingJoin,
                   messages,
                   pendingPresence,
                   jwtSessions, createdBy>>

\* -------------------------------------------------------------- disconnect

\* the disconnect loop of handleDisconnect over userSession.rooms
RECURSIVE CleanupRooms(_, _, _, _, _)
CleanupRooms(c, rooms, ar, tm, out) ==
    IF rooms = <<>> THEN [activeRooms |-> ar, timers |-> tm, out |-> out]
    ELSE
      LET r == Head(rooms) IN
      IF r \notin DOMAIN ar THEN CleanupRooms(c, Tail(rooms), ar, tm, out)
      ELSE
        LET room == ar[r]
            typing == c \in DOMAIN room.typingUsers
            left == [participants |-> room.participants \ {c},
                     typingUsers |-> MapDelete(room.typingUsers, c)]
            stopped == IF typing
                       THEN <<Event("userStoppedTyping", SocketTo(ioRooms, c, r),
                                    r, Decoded(c), None, None)>>
                       ELSE <<>>
            leftNotice == <<Event("userLeftRoom", SocketTo(ioRooms, c, r),
                                  r, Decoded(c), "member", None)>>
        IN  CleanupRooms(c, Tail(rooms),
                IF left.participants = {} THEN MapDelete(ar, r) ELSE MapSet(ar, r, left),
                IF typing THEN ClearTimeout(tm, c, r) ELSE tm,
                out \o stopped \o leftNotice)

\* the transport closes: Socket.IO takes the socket out of every adapter room
\* and fires "disconnect"; handleDisconnect runs if it is registered, up to
\* its await
Disconnect(c) ==
    /\ connected[c]
    /\ connected' = [connected EXCEPT ![c] = FALSE]
    /\ ioRooms' = [r \in Rooms |-> ioRooms[r] \ {c}]
    /\ discPc' = [discPc EXCEPT ![c] = IF HandlersRegistered(c) THEN "setOffline" ELSE @]
    /\ Idle
    /\ UNCHANGED <<authPc, handshake, isOnline, userRoomDocs, userSessions,
                   userSocketMap, activeRooms, timers, pendingJoin,
                   messages,
                   pendingPresence,
                   jwtSessions, createdBy>>

\* a handleDisconnect without its isOnline write
HandleDisconnectKeepsOnline(c) ==
    /\ discPc[c] = "setOffline"
    /\ userSessions' = MapDelete(userSessions, c)
    /\ userSocketMap' = MapDelete(userSocketMap, Decoded(c))
    /\ Did("handleDisconnect", c, None, BroadcastUserPresence(Decoded(c), FALSE))
    /\ discPc' = [discPc EXCEPT ![c] = "done"]
    /\ UNCHANGED <<connected, authPc, handshake, isOnline, userRoomDocs,
                   activeRooms, ioRooms, timers, pendingJoin, messages,
                   pendingPresence,
                   jwtSessions, createdBy>>

\* the isOnline write of handleDisconnect resolves: the maps are cleaned up,
\* the session's rooms are walked and broadcastUserPresence emits (its store
\* reads change nothing, so its events are taken in this step)
HandleDisconnect(c) ==
    /\ discPc[c] = "setOffline"
    /\ isOnline' = [isOnline EXCEPT ![Decoded(c)] = FALSE]
    /\ userSessions' = MapDelete(userSessions, c)
    /\ userSocketMap' = MapDelete(userSocketMap, Decoded(c))
    /\ LET rooms == IF c \in DOMAIN userSessions' THEN userSessions'[c].rooms ELSE <<>>
           done == CleanupRooms(c, rooms, activeRooms, timers, <<>>)
       IN  /\ activeRooms' = done.activeRooms
           /\ timers' = done.timers
           /\ Did("handleDisconnect", c, None,
                  done.out \o BroadcastUserPresence(Decoded(c), FALSE))
    /\ discPc' = [discPc EXCEPT ![c] = "done"]
    /\ UNCHANGED <<connected, authPc, handshake, userRoomDocs, ioRooms, pendingJoin,
                   messages,
                   pendingPresence,
                   jwtSessions, createdBy>>

\* the isOnline write of handleDisconnect rejects: the handler ends there
\* (the "disconnect" listener has no catch), before any clean-up or broadcast
DisconnectStoreError(c) ==
    /\ discPc[c] = "setOffline"
    /\ discPc' = [discPc EXCEPT ![c] = "failed"]
    /\ Did("disconnectError", c, None, <<>>)
    /\ UNCHANGED <<connected, authPc, handshake, isOnline, userRoomDocs,
                   userSessions, userSocketMap, activeRooms, ioRooms, timers,
                   pendingJoin, messages, pendingPresence,
                   jwtSessions, createdBy>>

\* handleDisconnect is entered once more for a socket whose disconnect has
\* been processed, up to its await
DisconnectAgain(c) ==
    /\ discPc[c] = "done"
    /\ discPc' = [discPc EXCEPT ![c] = "setOffline"]
    /\ Idle
    /\ UNCHANGED <<connected, authPc, handshake, isOnline, userRoomDocs,
                   userSessions, userSocketMap, activeRooms, ioRooms, timers,
                   pendingJoin, messages, pendingPresence,
                   jwtSessions, createdBy>>

\* ---------------------------------------------------------------- presence

\* the updatePresence handlers of socket c that are suspended
RECURSIVE PendingPresences(_, _)
PendingPresences(c, SS) ==
    IF SS = {} THEN 0
    ELSE LET st == CHOOSE x \in SS : TRUE
         IN  pendingPresence[c][st] + PendingPresences(c, SS \ {st})

\* socket.on("updatePresence"): handleUpdatePresence up to its await of the
\* isOnline write
UpdatePresence(c, st) ==
    /\ Inbound(c)
    /\ SocketUserId(c) # None
    /\ PendingPresences(c, Statuses) < MaxPendingPresence
    /\ pendingPresence' = [pendingPresence EXCEPT ![c][st] = @ + 1]
    /\ Idle
    /\ UNCHANGED <<connected, authPc, handshake, discPc, isOnline,
                   userRoomDocs, userSessions, userSocketMap, activeRooms,
                   ioRooms, timers, pendingJoin, messages,
                   jwtSessions, createdBy>>

\* the isOnline write of handleUpdatePresence resolves and
\* broadcastUserPresence emits
PresenceWritten(c, st) ==
    /\ pendingPresence[c][st] > 0
    /\ pendingPresence' = [pendingPresence EXCEPT ![c][st] = @ - 1]
    /\ isOnline' = [isOnline EXCEPT ![Decoded(c)] = (st # "offline")]
    /\ Did("updatePresence", c, None,
           BroadcastUserPresence(Decoded(c), st # "offline"))
    /\ UNCHANGED <<connected, authPc, handshake, discPc, userRoomDocs,
                   userSessions, userSocketMap, activeRooms, ioRooms, timers,
                   pendingJoin, messages,
                   jwtSessions, createdBy>>

\* the isOnline write of handleUpdatePresence rejects: the catch of the
\* "updatePresence" listener logs it
PresenceStoreError(c, st) ==
    /\ pendingPresence[c][st] > 0
    /\ pendingPresence' = [pendingPresence EXCEPT ![c][st] = @ - 1]
    /\ Did("presenceError", c, None, <<>>)
    /\ UNCHANGED <<connected, authPc, handshake, discPc, isOnline,
                   userRoomDocs, userSessions, userSocketMap, activeRooms,
                   ioRooms, timers, pendingJoin, messages,
                   jwtSessions, createdBy>>

\* ----------------------------------------------------------- direct sends

\* the events callers send to one user
DirectEvents == {"error", "newMessage"}

\* a sendToUser that answers true for any registered route
SendToUserTrustsRoute(u, ev) ==
    LET socketId == IF u \in DOMAIN userSocketMap THEN userSocketMap[u] ELSE None
    IN  /\ Returns("sendToUser", u, None,
                   IF socketId # None
                   THEN <<Event(ev, SocketEmit(socketId), None, None, None, None)>>
                   ELSE <<>>,
                   <<socketId # None>>)
        /\ UNCHANGED <<connected, authPc, handshake, discPc, isOnline,
                       userRoomDocs, userSessions, userSocketMap, activeRooms,
                       ioRooms, timers, pendingJoin, messages, pendingPresence,
                   jwtSessions, createdBy>>

\* sendToUser(userId, event, data), as called through safeSendToUser: the
\* route is looked up, then the socket in io.sockets.sockets, which holds the
\* connected sockets
SendToUser(u, ev) ==
    LET socketId == IF u \in DOMAIN userSocketMap THEN userSocketMap[u] ELSE None
        live == socketId # None /\ connected[socketId]
    IN  /\ Returns("sendToUser", u, None,
                   IF live
                   THEN <<Event(ev, {socketId}, None, None, None, None)>>
                   ELSE <<>>,
                   <<live>>)
        /\ UNCHANGED <<connected, authPc, handshake, discPc, isOnline,
                       userRoomDocs, userSessions, userSocketMap, activeRooms,
                       ioRooms, timers, pendingJoin, messages, pendingPresence,
                   jwtSessions, createdBy>>

\* ------------------------------------------------------------------- rooms

\* new ActiveRoom
NewRoom == [participants |-> {}, typingUsers |-> EmptyMap]

\* the notice with the fixed role handleLeaveRoom reports
JoinedNoticeAsMember(io, c, r) ==
    Event("userJoinedRoom", SocketTo(io, c, r), r, Decoded(c), "member", None)

\* the userJoinedRoom notice of handleJoinRoom, sent with socket.to(roomId)
JoinedNotice(io, c, r) ==
    Event("userJoinedRoom", SocketTo(io, c, r), r, Decoded(c),
          FindUserRoom(Decoded(c), r), None)

\* a handleJoinRoom that replaces the participants of the room by the joiner
JoinActiveRoomOverwrites(ar, c, r) ==
    LET room == IF r \in DOMAIN ar THEN ar[r] ELSE NewRoom
    IN  MapSet(ar, r, [room EXCEPT !.participants = {c}])

\* handleJoinRoom on activeRooms: the room is created if absent, the socket added
JoinActiveRoom(ar, c, r) ==
    LET room == IF r \in DOMAIN ar THEN ar[r] ELSE NewRoom
    IN  MapSet(ar, r, [room EXCEPT !.participants = @ \cup {c}])

\* handleLeaveRoom without its "clean up empty room" step
LeaveActiveRoomKeepsEmpty(ar, c, r) ==
    IF r \in DOMAIN ar
    THEN MapSet(ar, r, [participants |-> ar[r].participants \ {c},
                        typingUsers |-> MapDelete(ar[r].typingUsers, c)])
    ELSE ar

\* handleLeaveRoom without its "clear typing status" step
LeaveActiveRoomKeepsTyping(ar, c, r) ==
    IF r \in DOMAIN ar
    THEN LET left == [ar[r] EXCEPT !.participants = @ \ {c}]
         IN  IF left.participants = {} THEN MapDelete(ar, r) ELSE MapSet(ar, r, left)
    ELSE ar

\* a handleLeaveRoom that resets the room's typing map when the socket is not
\* a participant
LeaveActiveRoomClearsTyping(ar, c, r) ==
    IF r \in DOMAIN ar
    THEN LET left == [participants |-> ar[r].participants \ {c},
                      typingUsers |-> IF c \in ar[r].participants
                                      THEN MapDelete(ar[r].typingUsers, c)
                                      ELSE EmptyMap]
         IN  IF left.participants = {} THEN MapDelete(ar, r) ELSE MapSet(ar, r, left)
    ELSE ar

\* handleLeaveRoom on activeRooms: the socket and its typing entry are removed
\* and the room is deleted once empty
LeaveActiveRoom(ar, c, r) ==
    IF r \in DOMAIN ar
    THEN LET left == [participants |-> ar[r].participants \ {c},
                      typingUsers |-> MapDelete(ar[r].typingUsers, c)]
         IN  IF left.participants = {} THEN MapDelete(ar, r) ELSE MapSet(ar, r, left)
    ELSE ar

\* the handleJoinRoom calls of socket c that are suspended, over all rooms
RECURSIVE PendingJoins(_, _)
PendingJoins(c, RS) ==
    IF RS = {} THEN 0
    ELSE LET r == CHOOSE x \in RS : TRUE
         IN  pendingJoin[c][r] + PendingJoins(c, RS \ {r})

\* socket.on("joinRoom"): handleJoinRoom up to its await of UserRoom.findOne
JoinRoom(c, r) ==
    /\ Inbound(c)
    /\ SocketUserId(c) # None
    /\ PendingJoins(c, Rooms) < MaxPendingJoins
    /\ pendingJoin' = [pendingJoin EXCEPT ![c][r] = @ + 1]
    /\ Idle
    /\ UNCHANGED <<connected, authPc, handshake, discPc, isOnline, userRoomDocs,
                   userSessions, userSocketMap, activeRooms, ioRooms, timers,
                   messages,
                   pendingPresence,
                   jwtSessions, createdBy>>

\* the rest of handleJoinRoom once UserRoom.findOne has returned a document
JoinGranted(c, r) ==
    /\ pendingJoin[c][r] > 0
    /\ FindUserRoom(Decoded(c), r) # None
    /\ pendingJoin' = [pendingJoin EXCEPT ![c][r] = @ - 1]
    /\ ioRooms' = [ioRooms EXCEPT ![r] = @ \cup {c}]
    /\ userSessions' =
          IF c \in DOMAIN userSessions
          THEN [userSessions EXCEPT ![c].rooms = SetAdd(@, r)]
          ELSE userSessions
    /\ activeRooms' = JoinActiveRoom(activeRooms, c, r)
    /\ Did("joinGranted", c, r, <<JoinedNotice(ioRooms', c, r)>>)
    /\ UNCHANGED <<connected, authPc, handshake, discPc, isOnline, userRoomDocs,
                   userSocketMap, timers,
                   messages,
                   pendingPresence,
                   jwtSessions, createdBy>>

\* a denial that ends the connection the way authentication failures do
JoinDeniedDisconnects(c, r) ==
    /\ pendingJoin[c][r] > 0
    /\ FindUserRoom(Decoded(c), r) = None
    /\ pendingJoin' = [pendingJoin EXCEPT ![c][r] = @ - 1]
    /\ connected' = [connected EXCEPT ![c] = FALSE]
    /\ Did("joinDenied", c, r, <<ErrorEvent(SocketEmit(c), "ROOM_ACCESS_DENIED")>>)
    /\ UNCHANGED <<authPc, handshake, discPc, isOnline, userRoomDocs,
                   userSessions, userSocketMap, activeRooms, ioRooms, timers,
                   messages,
                   pendingPresence,
                   jwtSessions, createdBy>>

\* UserRoom.findOne returned null
JoinDenied(c, r) ==
    /\ pendingJoin[c][r] > 0
    /\ FindUserRoom(Decoded(c), r) = None
    /\ pendingJoin' = [pendingJoin EXCEPT ![c][r] = @ - 1]
    /\ Did("joinDenied", c, r, <<ErrorEvent(SocketEmit(c), "ROOM_ACCESS_DENIED")>>)
    /\ UNCHANGED <<connected, authPc, handshake, discPc, isOnline, userRoomDocs,
                   userSessions, userSocketMap, activeRooms, ioRooms, timers,
                   messages,
                   pendingPresence,
                   jwtSessions, createdBy>>

\* UserRoom.findOne rejected: the catch of the "joinRoom" listener
JoinStoreError(c, r) ==
    /\ pendingJoin[c][r] > 0
    /\ pendingJoin' = [pendingJoin EXCEPT ![c][r] = @ - 1]
    /\ Did("joinError", c, r, <<ErrorEvent(SocketEmit(c), None)>>)
    /\ UNCHANGED <<connected, authPc, handshake, discPc, isOnline, userRoomDocs,
                   userSessions, userSocketMap, activeRooms, ioRooms, timers,
                   messages,
                   pendingPresence,
                   jwtSessions, createdBy>>

\* socket.on("leaveRoom"): handleLeaveRoom, which never awaits
LeaveRoom(c, r) ==
    /\ Inbound(c)
    /\ SocketUserId(c) # None
    /\ ioRooms' = [ioRooms EXCEPT ![r] = @ \ {c}]
    /\ userSessions' =
          IF c \in DOMAIN userSessions
          THEN [userSessions EXCEPT ![c].rooms = SetDelete(@, r)]
          ELSE userSessions
    /\ activeRooms' = LeaveActiveRoom(activeRooms, c, r)
    /\ Did("leaveRoom", c, r,
           <<Event("userLeftRoom", SocketTo(ioRooms', c, r), r, Decoded(c),
                   "member", None)>>)
    /\ UNCHANGED <<connected, authPc, handshake, discPc, isOnline, userRoomDocs,
                   userSocketMap, timers, pendingJoin,
                   messages,
                   pendingPresence,
                   jwtSessions, createdBy>>

\* ------------------------------------------------------------------ typing

\* socket.on("startTyping"): handleStartTyping
StartTyping(c, r) ==
    /\ Inbound(c)
    /\ SocketUserId(c) # None
    /\ IF r \notin DOMAIN activeRooms
       THEN /\ Did("startTyping", c, r, <<>>)
            /\ UNCHANGED <<activeRooms, timers,
                   messages>>
       ELSE LET cleared == IF c \in DOMAIN activeRooms[r].typingUsers
                           THEN ClearTimeout(timers, c, r)
                           ELSE timers
            IN  /\ cleared[c][r] < MaxTimers
                /\ timers' = [cleared EXCEPT ![c][r] = @ + 1]
                /\ activeRooms' =
                      [activeRooms EXCEPT ![r].typingUsers = MapSet(@, c, Decoded(c))]
                /\ Did("startTyping", c, r,
                       <<Event("userTyping", SocketTo(ioRooms, c, r), r,
                               Decoded(c), None, None)>>)
    /\ UNCHANGED <<connected, authPc, handshake, discPc, isOnline, userRoomDocs,
                   userSessions, userSocketMap, ioRooms, pendingJoin,
                   messages,
                   pendingPresence,
                   jwtSessions, createdBy>>

\* a handleStopTyping that broadcasts whether or not an entry existed
StopTypingAlwaysNotifies(c, r, op, tm) ==
    /\ Did(op, c, r,
           <<Event("userStoppedTyping", SocketTo(ioRooms, c, r), r,
                   Decoded(c), None, None)>>)
    /\ IF r \in DOMAIN activeRooms /\ c \in DOMAIN activeRooms[r].typingUsers
       THEN /\ timers' = ClearTimeout(tm, c, r)
            /\ activeRooms' = [activeRooms EXCEPT ![r].typingUsers = MapDelete(@, c)]
       ELSE /\ timers' = tm
            /\ UNCHANGED activeRooms

\* handleStopTyping(socket, roomId); `fired` pending handles of (c, r) have
\* just fired and are gone whatever the handler does
StopTypingBody(c, r, op, tm) ==
    IF r \in DOMAIN activeRooms /\ c \in DOMAIN activeRooms[r].typingUsers
    THEN /\ timers' = ClearTimeout(tm, c, r)
         /\ activeRooms' = [activeRooms EXCEPT ![r].typingUsers = MapDelete(@, c)]
         /\ Did(op, c, r,
                <<Event("userStoppedTyping", SocketTo(ioRooms, c, r), r,
                        Decoded(c), None, None)>>)
    ELSE /\ timers' = tm
         /\ Did(op, c, r, <<>>)
         /\ UNCHANGED activeRooms

\* socket.on("stopTyping")
StopTyping(c, r) ==
    /\ Inbound(c)
    /\ SocketUserId(c) # None
    /\ StopTypingBody(c, r, "stopTyping", timers)
    /\ UNCHANGED <<connected, authPc, handshake, discPc, isOnline, userRoomDocs,
                   userSessions, userSocketMap, ioRooms, pendingJoin,
                   messages,
                   pendingPresence,
                   jwtSessions, createdBy>>

\* the handle the current typing entry of (c, r) holds fires after 10 s
TypingExpiry(c, r) ==
    /\ r \in DOMAIN activeRooms
    /\ c \in DOMAIN activeRooms[r].typingUsers
    /\ timers[c][r] > 0
    /\ SocketUserId(c) # None
    /\ activeRooms' = [activeRooms EXCEPT ![r].typingUsers = MapDelete(@, c)]
    /\ timers' = [timers EXCEPT ![c][r] = @ - 1]
    /\ Did("typingExpiry", c, r,
           <<Event("userStoppedTyping", SocketTo(ioRooms, c, r), r,
                   Decoded(c), None, None)>>)
    /\ UNCHANGED <<connected, authPc, handshake, discPc, isOnline, userRoomDocs,
                   userSessions, userSocketMap, ioRooms, pendingJoin,
                   messages,
                   pendingPresence,
                   jwtSessions, createdBy>>

\* a handle that no typing entry holds any more (its entry was deleted without
\* clearTimeout) fires
StaleExpiry(c, r) ==
    /\ timers[c][r] >
          (IF r \in DOMAIN activeRooms /\ c \in DOMAIN activeRooms[r].typingUsers
           THEN 1 ELSE 0)
    /\ SocketUserId(c) # None
    /\ StopTypingBody(c, r, "staleExpiry", [timers EXCEPT ![c][r] = @ - 1])
    /\ UNCHANGED <<connected, authPc, handshake, discPc, isOnline, userRoomDocs,
                   userSessions, userSocketMap, ioRooms, pendingJoin,
                   messages,
                   pendingPresence,
                   jwtSessions, createdBy>>

\* --------------------------------------------------- room-scoped broadcast

RoomEvents == {"newMessage", "messageUpdated", "messageDeleted", "roomUpdated"}

\* io.emit where io.to(roomId).emit was meant
EmitToAll(ev, r) ==
    /\ Did(ev, None, r,
           <<Event(ev, {x \in Conns : connected[x]}, r, None, None, None)>>)
    /\ UNCHANGED <<connected, authPc, handshake, discPc, isOnline, userRoomDocs,
                   userSessions, userSocketMap, activeRooms, ioRooms, timers,
                   pendingJoin, messages,
                   pendingPresence,
                   jwtSessions, createdBy>>

\* emitNewMessage / emitMessageUpdated / emitMessageDeleted / emitRoomUpdated,
\* as called through socket.utils' safeEmit* wrappers
EmitToRoom(ev, r) ==
    /\ Did(ev, None, r, <<Event(ev, IoTo(ioRooms, r), r, None, None, None)>>)
    /\ UNCHANGED <<connected, authPc, handshake, discPc, isOnline, userRoomDocs,
                   userSessions, userSocketMap, activeRooms, ioRooms, timers,
                   pendingJoin,
                   messages,
                   pendingPresence,
                   jwtSessions, createdBy>>

\* ------------------------------------------------ message request handlers

\* what is left of a Message document after findByIdAndDelete
DeletedMessage == [userId |-> None, roomId |-> None, isEdited |-> FALSE]

\* Message.findById(id) finds a document
MessageExists(id) == id \in 1..Len(messages) /\ messages[id] # DeletedMessage

\* POST /rooms/:id/messages, sendMessage by user u with valid content: the
\* caller must hold an active UserRoom; the message is saved and answered 201
SendMessage(u, r) ==
    /\ Len(messages) < MaxMessages
    /\ FindUserRoom(u, r) # None
    /\ messages' = Append(messages, [userId |-> u, roomId |-> r, isEdited |-> FALSE])
    /\ Did("sendMessage", u, r, <<>>)
    /\ UNCHANGED <<connected, authPc, handshake, discPc, isOnline, userRoomDocs,
                   userSessions, userSocketMap, activeRooms, ioRooms, timers,
                   pendingJoin,
                   pendingPresence,
                   jwtSessions, createdBy>>

\* PUT /messages/:id, updateMessage by its author within the edit window
UpdateMessage(u, id) ==
    /\ MessageExists(id)
    /\ FindUserRoom(u, messages[id].roomId) # None
    /\ messages[id].userId = u
    /\ messages' = [messages EXCEPT ![id].isEdited = TRUE]
    /\ Did("updateMessage", u, messages[id].roomId, <<>>)
    /\ UNCHANGED <<connected, authPc, handshake, discPc, isOnline, userRoomDocs,
                   userSessions, userSocketMap, activeRooms, ioRooms, timers,
                   pendingJoin,
                   pendingPresence,
                   jwtSessions, createdBy>>

\* DELETE /messages/:id, deleteMessage by its author or a room admin
DeleteMessage(u, id) ==
    /\ MessageExists(id)
    /\ FindUserRoom(u, messages[id].roomId) # None
    /\ messages[id].userId = u \/ FindUserRoom(u, messages[id].roomId) = "admin"
    /\ messages' = [messages EXCEPT ![id] = DeletedMessage]
    /\ Did("deleteMessage", u, messages[id].roomId, <<>>)
    /\ UNCHANGED <<connected, authPc, handshake, discPc, isOnline, userRoomDocs,
                   userSessions, userSocketMap, activeRooms, ioRooms, timers,
                   pendingJoin,
                   pendingPresence,
                   jwtSessions, createdBy>>

\* ------------------------------------------------------------ JWT sessions

\* revokeJWTSession / revokeAllUserSessions: the session of the user's token
\* is marked isActive: false
RevokeJWTSession(u) ==
    /\ jwtSessions[u] = "active"
    /\ jwtSessions' = [jwtSessions EXCEPT ![u] = "inactive"]
    /\ Did("revokeJWTSession", u, None, <<>>)
    /\ UNCHANGED <<connected, authPc, handshake, discPc, isOnline, userRoomDocs,
                   userSessions, userSocketMap, activeRooms, ioRooms, timers,
                   pendingJoin, messages, pendingPresence, createdBy>>

\* cleanupExpiredSessions: the sessions with isActive: false are deleted
CleanupExpiredSessions ==
    /\ \E u \in Users : jwtSessions[u] = "inactive"
    /\ jwtSessions' = [u \in Users |-> IF jwtSessions[u] = "inactive" THEN "deleted"
                                       ELSE jwtSessions[u]]
    /\ Did("cleanupExpiredSessions", None, None, <<>>)
    /\ UNCHANGED <<connected, authPc, handshake, discPc, isOnline, userRoomDocs,
                   userSessions, userSocketMap, activeRooms, ioRooms, timers,
                   pendingJoin, messages, pendingPresence, createdBy>>

\* -------------------------------------------------------- membership (REST)

\* the first of the users US in store order
FirstUser(US) ==
    UserSeq[CHOOSE i \in 1..Len(UserSeq) :
               /\ UserSeq[i] \in US
               /\ \A j \in 1..(i - 1) : UserSeq[j] \notin US]

\* the leaveRoom controller: ownership passes to another admin or to the first
\* other member when the creator leaves, and the caller's UserRoom is marked
\* isActive: false; the socket service is not called
LeaveRoomController(u, r) ==
    /\ FindUserRoom(u, r) # None
    /\ LET others == {v \in Users \ {u} : userRoomDocs[v][r] # None}
           admins == {v \in others : userRoomDocs[v][r] = "admin"}
           transfer == createdBy[r] = u /\ others # {}
           newOwner == IF admins # {} THEN FirstUser(admins) ELSE FirstUser(others)
       IN  /\ createdBy' = IF transfer THEN [createdBy EXCEPT ![r] = newOwner]
                           ELSE createdBy
           /\ userRoomDocs' =
                 [v \in Users |-> [q \in Rooms |->
                     IF q = r /\ v = u THEN None
                     ELSE IF transfer /\ q = r /\ v = newOwner THEN "admin"
                     ELSE userRoomDocs[v][q]]]
    /\ Did("leaveRoomController", u, r, <<>>)
    /\ UNCHANGED <<connected, authPc, handshake, discPc, isOnline,
                   userSessions, userSocketMap, activeRooms, ioRooms, timers,
                   pendingJoin, messages, pendingPresence, jwtSessions>>

\* -------------------------------------------------------------------- Next

\* connection, authentication and disconnect of the sockets CS
LifecycleNext(CS) ==
    \/ \E c \in CS : \E cred \in HandshakeOf(c) : Connect(c, cred)
    \/ \E c \in CS : AuthFindUser(c)
    \/ \E c \in CS : AuthRegister(c)
    \/ \E c \in CS : AuthPresence(c)
    \/ \E c \in CS : AuthStoreError(c)
    \/ \E c \in CS : Disconnect(c)
    \/ \E c \in CS : HandleDisconnect(c)

\* joinRoom / leaveRoom of the sockets CS on the rooms RS
RoomNext(CS, RS) ==
    \/ \E c \in CS, r \in RS : JoinRoom(c, r)
    \/ \E c \in CS, r \in RS : JoinGranted(c, r)
    \/ \E c \in CS, r \in RS : JoinDenied(c, r)
    \/ \E c \in CS, r \in RS : JoinStoreError(c, r)
    \/ \E c \in CS, r \in RS : LeaveRoom(c, r)

\* startTyping / stopTyping and the typing timers
TypingNext(CS, RS) ==
    \/ \E c \in CS, r \in RS : StartTyping(c, r)
    \/ \E c \in CS, r \in RS : StopTyping(c, r)
    \/ \E c \in CS, r \in RS : TypingExpiry(c, r)
    \/ \E c \in CS, r \in RS : StaleExpiry(c, r)

\* the room-scoped broadcasts the controllers can call
BroadcastNext(RS) ==
    \E ev \in RoomEvents, r \in RS : EmitToRoom(ev, r)

\* two sockets, two rooms: lifecycle and room membership
Next == LifecycleNext(Conns) \/ RoomNext(Conns, Rooms)

Spec == Init /\ [][Next]_vars

\* authentication that succeeds, and disconnect, of the sockets CS, each
\* trying the tokens creds[c]
SessionNext(CS, creds) ==
    \/ \E c \in CS : \E cred \in creds[c] : Connect(c, cred)
    \/ \E c \in CS : AuthFindUser(c)
    \/ \E c \in CS : AuthRegister(c)
    \/ \E c \in CS : AuthPresence(c)
    \/ \E c \in CS : Disconnect(c)
    \/ \E c \in CS : HandleDisconnect(c)

\* two sockets, one room: every inbound event and the typing timers; the first
\* socket is a member's, the second a member's or a non-member's
NextTyping ==
    \/ SessionNext(Conns, [c \in Conns |-> IF c = "c1" THEN {"u1"} ELSE {"u2", "u3"}])
    \/ RoomNext(Conns, {"r1"})
    \/ TypingNext(Conns, {"r1"})

SpecTyping == Init /\ [][NextTyping]_vars

\* two sockets, one room: membership and the controllers' broadcasts
NextBroadcast ==
    \/ LifecycleNext(Conns)
    \/ RoomNext(Conns, {"r1"})
    \/ BroadcastNext({"r1"})

SpecBroadcast == Init /\ [][NextBroadcast]_vars

\* the message request handlers
MessageNext(US, RS) ==
    \/ \E u \in US, r \in RS : SendMessage(u, r)
    \/ \E u \in US, id \in 1..MaxMessages : UpdateMessage(u, id)
    \/ \E u \in US, id \in 1..MaxMessages : DeleteMessage(u, id)

\* two sockets, one room: membership and the message request handlers
NextMessages ==
    \/ LifecycleNext(Conns)
    \/ RoomNext(Conns, {"r1"})
    \/ MessageNext(Users, {"r1"})

SpecMessages == Init /\ [][NextMessages]_vars

\* the sockets of u1 and u2 authenticate without a failure
AuthenticateNext ==
    \/ \E c \in Conns : Connect(c, IF c = "c1" THEN "u1" ELSE "u2")
    \/ \E c \in Conns : AuthFindUser(c)
    \/ \E c \in Conns : AuthRegister(c)
    \/ \E c \in Conns : AuthPresence(c)

\* joinRoom / leaveRoom of sockets CS whose users are members of the rooms RS
MemberRoomNext(CS, RS) ==
    \/ \E c \in CS, r \in RS : JoinRoom(c, r)
    \/ \E c \in CS, r \in RS : JoinGranted(c, r)
    \/ \E c \in CS, r \in RS : JoinStoreError(c, r)
    \/ \E c \in CS, r \in RS : LeaveRoom(c, r)

\* two sockets that stay connected, two rooms: the first joins, leaves and
\* types in both, the second joins and leaves the room it is a member of
NextLeave ==
    \/ AuthenticateNext
    \/ MemberRoomNext({"c1"}, Rooms)
    \/ MemberRoomNext({"c2"}, {"r1"})
    \/ TypingNext({"c1"}, Rooms)

SpecLeave == Init /\ [][NextLeave]_vars

\* the tokens of two sockets of the same member
SameUser == [c \in Conns |-> {"u1"}]

\* two sockets of one user, one room: both join and leave, the first types,
\* and the controllers broadcast to the room
NextDevices ==
    \/ SessionNext(Conns, SameUser)
    \/ MemberRoomNext(Conns, {"r1"})
    \/ TypingNext({"c1"}, {"r1"})
    \/ BroadcastNext({"r1"})

SpecDevices == Init /\ [][NextDevices]_vars

\* direct sends to a user, known or not
DirectNext ==
    \E u \in TokenIds, ev \in DirectEvents : SendToUser(u, ev)

\* two sockets with every kind of handshake, and direct sends
NextDirect ==
    \/ LifecycleNext(Conns)
    \/ DirectNext

SpecDirect == Init /\ [][NextDirect]_vars

\* two sockets of one user, one room, with the disconnect handler entered
\* again after it has completed
NextRedo ==
    \/ SessionNext(Conns, SameUser)
    \/ \E c \in Conns : DisconnectAgain(c)
    \/ MemberRoomNext(Conns, {"r1"})
    \/ TypingNext({"c1"}, {"r1"})

SpecRedo == Init /\ [][NextRedo]_vars

\* updatePresence with the statuses SS, and the store failures of the presence
\* writes
PresenceNext(CS, SS) ==
    \/ \E c \in CS, st \in SS : UpdatePresence(c, st)
    \/ \E c \in CS, st \in SS : PresenceWritten(c, st)
    \/ \E c \in CS, st \in SS : PresenceStoreError(c, st)
    \/ \E c \in CS : AuthStoreError(c)
    \/ \E c \in CS : DisconnectStoreError(c)

\* two sockets, two rooms: the first socket is of a member of the first room
\* only, tries both rooms and updates its presence; the second is of a member
\* of both rooms and joins the second
NextPresence ==
    \/ SessionNext(Conns, [c \in Conns |-> IF c = "c1" THEN {"u2"} ELSE {"u1"}])
    \/ RoomNext({"c1"}, Rooms)
    \/ MemberRoomNext({"c2"}, {"r2"})
    \/ PresenceNext({"c1"}, {"online", "offline"})

SpecPresence == Init /\ [][NextPresence]_vars

\* logout, session revocation and the session clean-up, taken while no
\* handshake is being authenticated
JwtSessionNext(US) ==
    /\ \A c \in Conns : authPc[c] \notin {"findUser", "setOnline"}
    /\ \/ \E u \in US : RevokeJWTSession(u)
       \/ CleanupExpiredSessions

\* two sockets with every kind of handshake, while sessions are revoked and
\* cleaned up
NextSessions ==
    \/ LifecycleNext(Conns)
    \/ JwtSessionNext({"u1", "u2"})

SpecSessions == Init /\ [][NextSessions]_vars

\* two sockets of two members of one room: joins, leaves, the controllers'
\* broadcasts to the room, and the members leaving the room through the API
NextMembership ==
    \/ SessionNext(Conns, [c \in Conns |-> IF c = "c1" THEN {"u1"} ELSE {"u2"}])
    \/ RoomNext(Conns, {"r1"})
    \/ BroadcastNext({"r1"})
    \/ \E u \in {"u1", "u2"} : LeaveRoomController(u, "r1")

SpecMembership == Init /\ [][NextMembership]_vars

\* two sockets of two members of one room that join and leave it; the first
\* types
NextTypingLive ==
    \/ SessionNext(Conns, [c \in Conns |-> IF c = "c1" THEN {"u1"} ELSE {"u2"}])
    \/ MemberRoomNext(Conns, {"r1"})
    \/ TypingNext({"c1"}, {"r1"})

\* a timeout that is pending fires: the event loop runs every setTimeout
\* callback that is due
TimersFire ==
    \A c \in Conns, r \in Rooms :
        /\ WF_vars(TypingExpiry(c, r))
        /\ WF_vars(StaleExpiry(c, r))

SpecTypingLive == Init /\ [][NextTypingLive]_vars /\ TimersFire

\* ------------------------------------------------------------------ claims

\* the userLeftRoom notices among the events of the last step
LeftNotices(out) ==
    LET isLeft(e) == e.ev = "userLeftRoom"
    IN  SelectSeq(out, isLeft)

\* C1: in every reachable state, every room id present in activeRooms has a
\* non-empty participant set.
C1_ActiveRoomsNonEmpty ==
    \A r \in DOMAIN activeRooms : activeRooms[r].participants # {}

\* C1 witness: a socket has left a room in which it was typing next to another
\* participant, and the room is still active.
C1_Witness ==
    /\ lastOp.op = "leaveRoom"
    /\ lastOp.r \in DOMAIN activeRooms
    /\ lastOp.c \notin activeRooms[lastOp.r].participants
    /\ timers[lastOp.c][lastOp.r] > 0

\* C2: once the disconnect handler of a socket has completed, the socket is in
\* the participant set of no active room.
C2_DisconnectRemovesParticipant ==
    lastOp.op = "handleDisconnect" =>
        \A r \in DOMAIN activeRooms : lastOp.c \notin activeRooms[r].participants

\* C3: the disconnect handler emits exactly one userLeftRoom notice for each
\* room the socket had joined immediately before, and for no other room.
C3_OneLeftNoticePerJoinedRoom ==
    [][(lastOp'.op = "handleDisconnect" /\ lastOp'.c \in DOMAIN userSessions) =>
          LET joined == Range(userSessions[lastOp'.c].rooms)
              left == LeftNotices(emitted')
          IN  /\ {left[i].room : i \in 1..Len(left)} = joined
              /\ Len(left) = Cardinality(joined)]_vars

\* C4: an active room is removed once every socket that joined it has left or
\* disconnected: a room still in activeRooms (and counted by
\* getActiveRoomsCount) has a participant whose disconnect handler has not run.
C4_EmptiedRoomRemoved ==
    \A r \in DOMAIN activeRooms :
        \E c \in activeRooms[r].participants : discPc[c] # "done"

\* the connected sockets in the participant set of room r
LiveParticipants(r) ==
    IF r \in DOMAIN activeRooms
    THEN {x \in activeRooms[r].participants : connected[x]}
    ELSE {}

\* the connected sockets whose session's joined-room set holds r
LiveJoined(r) ==
    {x \in DOMAIN userSessions : connected[x] /\ r \in Range(userSessions[x].rooms)}

\* C5: a successful joinRoom(R) by B emits one userJoinedRoom notice about B's
\* principal to every other connected participant of R and never to B; when A
\* was the only participant before, the participant set becomes {A, B} and A,
\* if connected, is a recipient.
C5_JoinNoticeToOthers ==
    [][\A c \in Conns, r \in Rooms :
          (lastOp'.op = "joinGranted" /\ lastOp'.c = c /\ lastOp'.r = r) =>
              /\ Len(emitted') = 1
              /\ emitted'[1].ev = "userJoinedRoom"
              /\ emitted'[1].room = r
              /\ emitted'[1].userId = handshake[c]
              /\ emitted'[1].to = LiveParticipants(r)' \ {c}
              /\ c \notin emitted'[1].to
              /\ \A a \in Conns \ {c} :
                    (r \in DOMAIN activeRooms /\ activeRooms[r].participants = {a}) =>
                        /\ activeRooms'[r].participants = {a, c}
                        /\ connected[a] => a \in emitted'[1].to]_vars

\* C5 witness: B has joined a room whose only participant was a connected A,
\* and A is the one recipient of the notice.
C5_Witness ==
    /\ lastOp.op = "joinGranted"
    /\ connected[lastOp.c]
    /\ Cardinality(activeRooms[lastOp.r].participants) = 2
    /\ Cardinality(emitted[1].to) = 1

\* C6: a joinRoom whose membership lookup finds no active membership changes
\* neither activeRooms (participants and typing maps), nor any session's
\* joined-room set, nor the principal routes, nor the timers; it sends exactly
\* one error event, code ROOM_ACCESS_DENIED, to the caller only, no
\* userJoinedRoom, and leaves the caller connected and authenticated.
C6_DeniedJoinChangesNothing ==
    [][lastOp'.op = "joinDenied" =>
          LET c == lastOp'.c
              r == lastOp'.r
          IN  /\ FindUserRoom(Decoded(c), r) = None
              /\ activeRooms' = activeRooms
              /\ userSessions' = userSessions
              /\ userSocketMap' = userSocketMap
              /\ timers' = timers
              /\ ioRooms' = ioRooms
              /\ connected' = connected
              /\ authPc' = authPc
              /\ Len(emitted') = 1
              /\ emitted'[1].ev = "error"
              /\ emitted'[1].code = "ROOM_ACCESS_DENIED"
              /\ emitted'[1].to = (IF connected[c] THEN {c} ELSE {})]_vars

\* C6 witness: a connected, registered socket has been denied while a room is
\* active with a typing entry in it.
C6_Witness ==
    /\ lastOp.op = "joinDenied"
    /\ connected[lastOp.c]
    /\ lastOp.c \in DOMAIN userSessions
    /\ emitted[1].to = {lastOp.c}
    /\ \E r \in DOMAIN activeRooms : DOMAIN activeRooms[r].typingUsers # {}

\* C7: after a successful joinRoom(R) by a connected, authenticated socket c,
\* c is a participant of the active room R, R is in c's session's joined-room
\* set, and the notice carries the role of the user's UserRoom document.
C7_JoinRegistersAndReportsRole ==
    (lastOp.op = "joinGranted" /\ connected[lastOp.c]) =>
        LET c == lastOp.c
            r == lastOp.r
        IN  /\ c \in DOMAIN userSessions
            /\ r \in DOMAIN activeRooms
            /\ c \in activeRooms[r].participants
            /\ r \in Range(userSessions[c].rooms)
            /\ Len(emitted) = 1
            /\ emitted[1].role \in MemberRoles
            /\ emitted[1].role = userRoomDocs[userSessions[c].userId][r]

\* C7 witness: an admin has joined a room that was not active before.
C7_Witness ==
    /\ lastOp.op = "joinGranted"
    /\ connected[lastOp.c]
    /\ activeRooms[lastOp.r].participants = {lastOp.c}
    /\ emitted[1].role = "admin"

\* C8: a room-scoped broadcast for room R emits one event whose recipients are
\* exactly the connected sockets joined to R (none when there is none) and
\* changes no in-memory state.
C8_BroadcastToLiveParticipants ==
    [][lastOp'.op \in RoomEvents =>
          LET r == lastOp'.r
          IN  /\ Len(emitted') = 1
              /\ emitted'[1].ev = lastOp'.op
              /\ emitted'[1].room = r
              /\ emitted'[1].to = LiveParticipants(r)
              /\ emitted'[1].to = LiveJoined(r)
              /\ UNCHANGED <<connected, authPc, userSessions, userSocketMap,
                             activeRooms, ioRooms, timers, pendingJoin>>]_vars

\* C8 witness: a message was broadcast to a room with one connected
\* participant while another registered, connected socket is not in the room.
C8_Witness ==
    /\ lastOp.op = "newMessage"
    /\ Cardinality(emitted[1].to) = 1
    /\ \E x \in DOMAIN userSessions : connected[x] /\ x \notin emitted[1].to

\* C9: whenever a message request handler has persisted a message, an edit or
\* a deletion for room R, the matching event is fanned out to every connected
\* socket joined to R.
C9_PersistedMessageIsBroadcast ==
    lastOp.op \in {"sendMessage", "updateMessage", "deleteMessage"} =>
        \A x \in LiveParticipants(lastOp.r) :
            \E i \in 1..Len(emitted) :
                /\ emitted[i].ev =
                      (CASE lastOp.op = "sendMessage" -> "newMessage"
                         [] lastOp.op = "updateMessage" -> "messageUpdated"
                         [] OTHER -> "messageDeleted")
                /\ x \in emitted[i].to

\* C10: a handshake without credential, with a credential that fails
\* verification, or for a user the lookup does not find gets one error event
\* (AUTH_REQUIRED, AUTH_FAILED, USER_NOT_FOUND respectively) sent to that
\* socket only and is disconnected; it is never registered (no session, no
\* route, no handlers), nothing is broadcast, and sessions, routes, rooms and
\* the other sockets are unchanged.
C10_RejectedHandshake ==
    [][/\ lastOp'.op = "authReject" =>
             LET c == lastOp'.c
             IN  /\ Len(emitted') = 1
                 /\ emitted'[1].ev = "error"
                 /\ emitted'[1].to \subseteq {c}
                 /\ emitted'[1].code =
                       (CASE handshake'[c] = "absent" -> "AUTH_REQUIRED"
                          [] handshake'[c] = "invalid" -> "AUTH_FAILED"
                          [] OTHER -> "USER_NOT_FOUND")
                 /\ handshake'[c] \in {"absent", "invalid"} \cup (TokenIds \ Users)
                 /\ (handshake'[c] \in {"absent", "invalid"} \/ connected[c])
                       => emitted'[1].to = {c}
                 /\ ~connected'[c]
                 /\ authPc'[c] = "failed"
                 /\ UNCHANGED <<userSessions, userSocketMap, activeRooms, ioRooms,
                                isOnline, timers, pendingJoin, discPc>>
                 /\ \A d \in Conns \ {c} :
                       connected'[d] = connected[d] /\ authPc'[d] = authPc[d]
       /\ \A c \in Conns :
             authPc'[c] = "failed" =>
                 /\ c \notin DOMAIN userSessions'
                 /\ \A u \in DOMAIN userSocketMap' : userSocketMap'[u] # c
                 /\ ~HandlersRegistered(c)'
                 /\ ~connected'[c]
                 /\ \A r \in Rooms : c \notin ioRooms'[r]]_vars

\* C10 witness: a socket whose token names a deleted user has been rejected
\* while another socket is registered and in a room.
C10_Witness ==
    /\ lastOp.op = "authReject"
    /\ emitted[1].code = "USER_NOT_FOUND"
    /\ emitted[1].to = {lastOp.c}
    /\ \E d \in DOMAIN userSessions : userSessions[d].rooms # <<>>

\* the sockets with a typing entry in room r
TypingIn(ar, r) == IF r \in DOMAIN ar THEN DOMAIN ar[r].typingUsers ELSE {}

\* the participants of room r
ParticipantsOf(ar, r) == IF r \in DOMAIN ar THEN ar[r].participants ELSE {}

\* C11: a socket's joinRoom / leaveRoom / typing events are accepted only once
\* its authentication has completed, the userOnline broadcast included: a
\* socket with a joinRoom in progress or a joined room has finished
\* authenticateSocket.
C11_EventsOnlyAfterPresence ==
    \A c \in Conns :
        (\/ PendingJoins(c, Rooms) > 0
         \/ c \in DOMAIN userSessions /\ userSessions[c].rooms # <<>>)
            => authPc[c] = "done"

\* C12: startTyping(R) from a socket that is not a participant of the active
\* room R creates no typing entry, arms no timer and emits nothing.
C12_TypingOutsideRoomIsNoOp ==
    [][\A c \in Conns, r \in Rooms :
          (/\ lastOp'.op = "startTyping" /\ lastOp'.c = c /\ lastOp'.r = r
           /\ r \in DOMAIN activeRooms
           /\ c \notin activeRooms[r].participants) =>
              /\ activeRooms' = activeRooms
              /\ timers' = timers
              /\ emitted' = <<>>]_vars

\* C13: in every reachable state a (socket, room) pair has at most one armed
\* expiry timer.
C13_AtMostOneArmedTimer ==
    \A c \in Conns, r \in Rooms : timers[c][r] <= 1

\* C14: the firing of a timer armed by an earlier startTyping removes no typing
\* entry: an entry is removed by expiry only through the timer armed with it.
C14_StaleExpiryRemovesNothing ==
    [][lastOp'.op = "staleExpiry" => activeRooms' = activeRooms]_vars

\* C15: handleStopTyping (called by stopTyping or by a timer) emits one
\* userStoppedTyping iff the socket had a typing entry in the room, and then
\* the entry is gone and its timer cancelled; with no entry it emits nothing
\* and changes no state, so an entry yields at most one userStoppedTyping.
C15_StopNoticeIffEntry ==
    [][\A c \in Conns, r \in Rooms :
          (/\ lastOp'.op \in {"stopTyping", "typingExpiry", "staleExpiry"}
           /\ lastOp'.c = c /\ lastOp'.r = r) =>
              /\ UNCHANGED <<userSessions, userSocketMap, ioRooms, connected>>
              /\ IF c \in TypingIn(activeRooms, r)
                 THEN /\ Len(emitted') = 1
                      /\ emitted'[1].ev = "userStoppedTyping"
                      /\ emitted'[1].room = r
                      /\ emitted'[1].userId = handshake[c]
                      /\ c \notin emitted'[1].to
                      /\ c \notin TypingIn(activeRooms', r)
                      /\ TypingIn(activeRooms', r) = TypingIn(activeRooms, r) \ {c}
                      /\ timers'[c][r] < timers[c][r]
                      /\ lastOp'.op = "stopTyping" =>
                            timers'[c][r] = timers[c][r] - 1
                 ELSE /\ emitted' = <<>>
                      /\ activeRooms' = activeRooms
                      /\ lastOp'.op = "stopTyping" => timers' = timers]_vars

\* C15 witness: an explicit stopTyping found an entry and its notice went to
\* another participant; no timer of the pair is left.
C15_Witness ==
    /\ lastOp.op = "stopTyping"
    /\ Len(emitted) = 1
    /\ emitted[1].to # {}
    /\ timers[lastOp.c][lastOp.r] = 0

\* C16: after leaveRoom(c, R) has completed, no expiry timer of (c, R) is
\* pending.
C16_LeaveCancelsTimers ==
    lastOp.op = "leaveRoom" => timers[lastOp.c][lastOp.r] = 0

\* C18: joinRoom(R) by a socket already a participant of R changes neither the
\* participant set nor the joined-room set, sends no error, and no second
\* userJoinedRoom notice reaches the room.
C18_RejoinIsSilent ==
    [][\A c \in Conns, r \in Rooms :
          (/\ lastOp'.op = "joinGranted" /\ lastOp'.c = c /\ lastOp'.r = r
           /\ c \in ParticipantsOf(activeRooms, r)
           /\ c \in DOMAIN userSessions /\ r \in Range(userSessions[c].rooms)) =>
              /\ activeRooms' = activeRooms
              /\ userSessions' = userSessions
              /\ \A i \in 1..Len(emitted') :
                    /\ emitted'[i].ev # "error"
                    /\ emitted'[i].ev = "userJoinedRoom" => emitted'[i].to = {}]_vars

\* C19: a leaveRoom(c, R) that directly follows a leaveRoom(c, R) changes
\* neither activeRooms (participants and typing maps) nor any joined-room set
\* and sends no error.
C19_SecondLeaveIsNoOp ==
    [][\A c \in Conns, r \in Rooms :
          (/\ lastOp.op = "leaveRoom" /\ lastOp.c = c /\ lastOp.r = r
           /\ lastOp'.op = "leaveRoom" /\ lastOp'.c = c /\ lastOp'.r = r) =>
              /\ activeRooms' = activeRooms
              /\ userSessions' = userSessions
              /\ ioRooms' = ioRooms
              /\ timers' = timers
              /\ \A i \in 1..Len(emitted') : emitted'[i].ev # "error"]_vars

\* C19 witness: a socket that was typing has left a room that stays active
\* with another participant typing in it, and can send leaveRoom again.
C19_Witness ==
    /\ lastOp.op = "leaveRoom"
    /\ Inbound(lastOp.c)
    /\ lastOp.c \notin ParticipantsOf(activeRooms, lastOp.r)
    /\ TypingIn(activeRooms, lastOp.r) # {}
    /\ timers[lastOp.c][lastOp.r] > 0

\* C20: a joinRoom(R) of a socket that is not a participant of R and has no
\* typing entry in R (a first join, or a join after a leave) leaves the socket
\* once in the participants, R once in its joined-room set, no typing entry of
\* the socket in R and no expiry timer of (c, R) pending.
C20_RejoinRestoresState ==
    [][\A c \in Conns, r \in Rooms :
          (/\ lastOp'.op = "joinGranted" /\ lastOp'.c = c /\ lastOp'.r = r
           /\ c \in DOMAIN userSessions
           /\ c \notin ParticipantsOf(activeRooms, r)
           /\ c \notin TypingIn(activeRooms, r)) =>
              /\ c \in ParticipantsOf(activeRooms', r)
              /\ ParticipantsOf(activeRooms', r) = ParticipantsOf(activeRooms, r) \cup {c}
              /\ LET isR(x) == x = r
                 IN  Len(SelectSeq(userSessions'[c].rooms, isR)) = 1
              /\ c \notin TypingIn(activeRooms', r)
              /\ timers'[c][r] = 0]_vars

\* C17: after leaveRoom(c, R), c is not a participant of R, R is not in c's
\* joined-room set, c has no typing entry in R, and R is gone from activeRooms
\* iff its participant set became empty; every other room, every other
\* socket's joined-room set and membership of R, and the other typing entries
\* of a surviving R are unchanged.
C17_LeaveRemovesOnlyTheLeaver ==
    [][\A c \in Conns, r \in Rooms :
          (lastOp'.op = "leaveRoom" /\ lastOp'.c = c /\ lastOp'.r = r) =>
              /\ c \notin ParticipantsOf(activeRooms', r)
              /\ c \notin TypingIn(activeRooms', r)
              /\ ParticipantsOf(activeRooms', r) = ParticipantsOf(activeRooms, r) \ {c}
              /\ r \in DOMAIN activeRooms' <=> ParticipantsOf(activeRooms, r) \ {c} # {}
              /\ r \in DOMAIN activeRooms' =>
                    \A d \in TypingIn(activeRooms, r) \ {c} :
                        /\ d \in TypingIn(activeRooms', r)
                        /\ activeRooms'[r].typingUsers[d] = activeRooms[r].typingUsers[d]
              /\ \A q \in Rooms \ {r} :
                    /\ q \in DOMAIN activeRooms' <=> q \in DOMAIN activeRooms
                    /\ q \in DOMAIN activeRooms => activeRooms'[q] = activeRooms[q]
              /\ DOMAIN userSessions' = DOMAIN userSessions
              /\ c \in DOMAIN userSessions =>
                    Range(userSessions'[c].rooms) = Range(userSessions[c].rooms) \ {r}
              /\ \A d \in DOMAIN userSessions \ {c} : userSessions'[d] = userSessions[d]]_vars

\* C17 witness: a socket that was typing in two rooms has left one of them;
\* another socket is still a participant there, and the leaver is still
\* joined to, and typing in, the other room.
C17_Witness ==
    /\ lastOp.op = "leaveRoom"
    /\ ParticipantsOf(activeRooms, lastOp.r) # {}
    /\ timers[lastOp.c][lastOp.r] > 0
    /\ \E q \in Rooms \ {lastOp.r} :
          /\ q \in Range(userSessions[lastOp.c].rooms)
          /\ lastOp.c \in TypingIn(activeRooms, q)

\* the events named ev among the events of a step
EventsNamed(out, ev) ==
    LET isEv(e) == e.ev = ev
    IN  SelectSeq(out, isEv)

\* the rooms user u holds an active UserRoom document for
DurableRooms(u) ==
    IF u \in DOMAIN userRoomDocs
    THEN {r \in Rooms : userRoomDocs[u][r] # None}
    ELSE {}

\* C21: when the disconnect handler runs for a socket that has a typing entry
\* in a room it has joined, it emits exactly one userStoppedTyping for that
\* room, and before the userLeftRoom for that room.
C21_StoppedTypingBeforeLeft ==
    [][\A c \in Conns, r \in Rooms :
          (/\ lastOp'.op = "handleDisconnect" /\ lastOp'.c = c
           /\ c \in DOMAIN userSessions
           /\ r \in Range(userSessions[c].rooms)
           /\ c \in TypingIn(activeRooms, r)) =>
              LET stops == {i \in 1..Len(emitted') :
                               /\ emitted'[i].ev = "userStoppedTyping"
                               /\ emitted'[i].room = r}
                  lefts == {i \in 1..Len(emitted') :
                               /\ emitted'[i].ev = "userLeftRoom"
                               /\ emitted'[i].room = r}
              IN  /\ Cardinality(stops) = 1
                  /\ Cardinality(lefts) = 1
                  /\ \A i \in stops, j \in lefts : i < j]_vars

\* C22: once the disconnect handler of a socket has completed, the socket has
\* no typing entry in a room it had joined, and the timer of such an entry is
\* no longer pending.
C22_DisconnectClearsTyping ==
    [][\A c \in Conns, r \in Rooms :
          (/\ lastOp'.op = "handleDisconnect" /\ lastOp'.c = c
           /\ c \in DOMAIN userSessions
           /\ r \in Range(userSessions[c].rooms)) =>
              /\ c \notin TypingIn(activeRooms', r)
              /\ c \in TypingIn(activeRooms, r) => timers'[c][r] < timers[c][r]]_vars

C24_PresenceIsAdditive ==
    [][\A c \in Conns, d \in Conns :
          (/\ lastOp'.op = "handleDisconnect" /\ lastOp'.c = c
           /\ d # c
           /\ connected[d]
           /\ d \in DOMAIN userSessions
           /\ userSessions[d].userId = handshake[c]) =>
              /\ isOnline'[handshake[c]] = isOnline[handshake[c]]
              /\ EventsNamed(emitted', "userOffline") = <<>>]_vars

\* C25: when a socket c registers for user P, P's route becomes c and nothing
\* of any other socket changes: sessions and joined-room sets, participant
\* sets, typing entries, timers and adapter rooms are as before, nothing is
\* sent; and a room broadcast reaches every connected socket joined to the
\* room, whichever socket the route points to.
C25_SecondDeviceEvictsNobody ==
    [][/\ \A c \in Conns :
             (lastOp'.op = "authRegister" /\ lastOp'.c = c) =>
                 /\ userSocketMap'[handshake[c]] = c
                 /\ \A d \in DOMAIN userSessions \ {c} :
                       /\ d \in DOMAIN userSessions'
                       /\ userSessions'[d] = userSessions[d]
                 /\ activeRooms' = activeRooms
                 /\ ioRooms' = ioRooms
                 /\ timers' = timers
                 /\ connected' = connected
                 /\ emitted' = <<>>
       /\ lastOp'.op \in RoomEvents =>
             \A d \in DOMAIN userSessions :
                 (connected[d] /\ lastOp'.r \in Range(userSessions[d].rooms))
                     => d \in emitted'[1].to]_vars

\* C25 witness: a second socket of a user has registered and holds the route,
\* while the user's first socket is connected, joined to a room and typing.
C25_Witness ==
    /\ lastOp.op = "authRegister"
    /\ userSocketMap[handshake[lastOp.c]] = lastOp.c
    /\ \E d \in DOMAIN userSessions \ {lastOp.c} :
          /\ connected[d]
          /\ userSessions[d].userId = handshake[lastOp.c]
          /\ "r1" \in Range(userSessions[d].rooms)
          /\ d \in TypingIn(activeRooms, "r1")

\* C26: sendToUser changes no state; it returns true exactly when it emitted
\* the event to one connected socket registered for the user, and false,
\* having emitted nothing, when the user has no route or the routed socket is
\* no longer connected.
C26_SendToUserResult ==
    [][lastOp'.op = "sendToUser" =>
          LET u == lastOp'.c
              routed == u \in DOMAIN userSocketMap
          IN  /\ UNCHANGED <<connected, authPc, isOnline, userSessions,
                             userSocketMap, activeRooms, ioRooms, timers,
                             pendingJoin, pendingPresence, messages, discPc>>
              /\ returned' \in {<<TRUE>>, <<FALSE>>}
              /\ returned' = <<TRUE>> =>
                    /\ routed
                    /\ connected[userSocketMap[u]]
                    /\ handshake[userSocketMap[u]] = u
                    /\ Len(emitted') = 1
                    /\ emitted'[1].to = {userSocketMap[u]}
              /\ returned' = <<FALSE>> => emitted' = <<>>
              /\ (~routed \/ ~connected[userSocketMap[u]]) =>
                    returned' = <<FALSE>>]_vars

\* C26 witness: a send to a user whose route still points to a socket that has
\* disconnected has returned false.
C26_Witness ==
    /\ lastOp.op = "sendToUser"
    /\ returned = <<FALSE>>
    /\ lastOp.c \in DOMAIN userSocketMap
    /\ ~connected[userSocketMap[lastOp.c]]

\* C27: a run of the disconnect handler for a socket whose session is already
\* unregistered changes neither the sessions, nor the routes (a route another
\* socket of the user has registered since included), nor activeRooms.
C27_SecondDisconnectIsNoOp ==
    [][\A c \in Conns :
          (/\ lastOp'.op = "handleDisconnect" /\ lastOp'.c = c
           /\ c \notin DOMAIN userSessions) =>
              /\ userSessions' = userSessions
              /\ userSocketMap' = userSocketMap
              /\ activeRooms' = activeRooms]_vars

\* C28: once a socket that disconnected during its authentication is at rest
\* (authentication over, no disconnect handler pending), it has no session and
\* no route points to it.
C28_DisconnectDuringAuth ==
    \A c \in Conns :
        (/\ ~connected[c]
         /\ authPc[c] \in {"done", "failed"}
         /\ discPc[c] # "setOffline") =>
            /\ c \notin DOMAIN userSessions
            /\ \A u \in DOMAIN userSocketMap : userSocketMap[u] # c

\* the userOnline / userOffline events among the events of a step
PresenceEvents(out) ==
    LET isPresence(e) == e.ev \in {"userOnline", "userOffline"}
    IN  SelectSeq(out, isPresence)

C30_FailedWriteStillAnnounces ==
    [][(\/ lastOp'.op = "authError" /\ authPc[lastOp'.c] = "setOnline"
        \/ lastOp'.op \in {"presenceError", "disconnectError"}) =>
          /\ Len(PresenceEvents(emitted')) =
                Cardinality(DurableRooms(handshake[lastOp'.c]))
          /\ EventsNamed(emitted', "error") = <<>>
          /\ connected' = connected]_vars

\* C31: a failure thrown inside the handler of an inbound event (here the
\* rejected store call of joinRoom and of updatePresence) is answered with
\* exactly one error event, sent to the socket that sent the event and to it
\* only.
C31_HandlerFailureAnswered ==
    [][\A c \in Conns :
          (/\ lastOp'.op \in {"joinError", "presenceError"}
           /\ lastOp'.c = c
           /\ connected[c]) =>
              /\ Len(emitted') = 1
              /\ emitted'[1].ev = "error"
              /\ emitted'[1].to = {c}]_vars

\* C32: the events of one socket take effect in the order received: its
\* leaveRoom(R) handler never runs while an earlier joinRoom(R) of the same
\* socket is still suspended on the store.
C32_FifoPerConnection ==
    [][\A c \in Conns, r \in Rooms :
          (lastOp'.op = "leaveRoom" /\ lastOp'.c = c /\ lastOp'.r = r) =>
              pendingJoin[c][r] = 0]_vars

\* the rooms in the session of socket c
JoinedRooms(us, c) == IF c \in DOMAIN us THEN Range(us[c].rooms) ELSE {}

\* C33: after every step, for every socket with a registered session, a room
\* is among the session's rooms exactly when the socket is among the room's
\* participants; and a join that completes adds the joiner to the
\* participants the room had and removes nobody, however the joins and leaves
\* of other sockets interleave.
C33_JoinsAreAtomic ==
    [][/\ \A c \in DOMAIN userSessions', r \in Rooms :
             r \in JoinedRooms(userSessions', c) <=>
                c \in ParticipantsOf(activeRooms', r)
       /\ \A c \in Conns, r \in Rooms :
             (lastOp'.op = "joinGranted" /\ lastOp'.c = c /\ lastOp'.r = r) =>
                ParticipantsOf(activeRooms', r) =
                   ParticipantsOf(activeRooms, r) \cup {c}]_vars

\* C33 witness: the second of two authorised joins to one room by different
\* sockets has completed: both sockets are participants and both sessions
\* list the room.
C33_Witness ==
    /\ lastOp.op = "joinGranted"
    /\ ParticipantsOf(activeRooms, lastOp.r) = Conns
    /\ \A c \in Conns : lastOp.r \in JoinedRooms(userSessions, c)
    /\ \A c \in Conns : connected[c]

\* C35: once the disconnect handler of a socket has run, no later step adds
\* the socket to a room's participants or typing map, and no later step is a
\* join completing for it.
C35_DisconnectedIsTerminal ==
    [][\A c \in Conns, r \in Rooms :
          discPc[c] = "done" =>
              /\ c \in ParticipantsOf(activeRooms', r) =>
                    c \in ParticipantsOf(activeRooms, r)
              /\ c \in TypingIn(activeRooms', r) => c \in TypingIn(activeRooms, r)
              /\ ~(lastOp'.op = "joinGranted" /\ lastOp'.c = c)]_vars

\* no handler is suspended on the store
Quiescent ==
    \A c \in Conns :
        /\ authPc[c] \in {"none", "done", "failed"}
        /\ discPc[c] # "setOffline"
        /\ PendingJoins(c, Rooms) = 0
        /\ PendingPresences(c, Statuses) = 0

\* C36: when no handler is suspended, the participants of every room are the
\* sockets in the adapter's room of that name.
C36_ParticipantsMirrorTransport ==
    Quiescent => \A r \in Rooms : ParticipantsOf(activeRooms, r) = ioRooms[r]

\* C37: when no handler is suspended and every session is of a connected
\* socket, a user with a session has a route, and the route names a connected
\* socket of that user.
C37_LivePrincipalAddressable ==
    (Quiescent /\ \A d \in DOMAIN userSessions : connected[d]) =>
        \A c \in DOMAIN userSessions :
            connected[c] =>
                LET P == userSessions[c].userId
                IN  /\ P \in DOMAIN userSocketMap
                    /\ connected[userSocketMap[P]]
                    /\ handshake[userSocketMap[P]] = P

\* C39: a leaveRoom from a socket that is not a participant of the room, of a
\* user none of whose sockets is a participant of it, sends no userLeftRoom
\* notice to anybody.
C39_LeftNoticeOnlyForParticipants ==
    [][\A c \in Conns, r \in Rooms :
          (/\ lastOp'.op = "leaveRoom" /\ lastOp'.c = c /\ lastOp'.r = r
           /\ \A d \in ParticipantsOf(activeRooms, r) :
                 d # c /\ handshake[d] # handshake[c]) =>
              \A i \in 1..Len(emitted') :
                  emitted'[i].ev = "userLeftRoom" => emitted'[i].to = {}]_vars

\* C34: a socket is registered (session and route stored) only while the
\* stored JWT session of the token it presented is active: not revoked, not
\* deleted.
C34_RevokedSessionRejected ==
    [][\A c \in Conns :
          (lastOp'.op = "authRegister" /\ lastOp'.c = c) =>
              jwtSessions[handshake[c]] = "active"]_vars

\* C40: when no handler is suspended, every connected participant of a room
\* belongs to a user who holds an active membership of the room.
C40_ParticipationWithinMembership ==
    Quiescent =>
        \A r \in Rooms, c \in Conns :
            (connected[c] /\ c \in ParticipantsOf(activeRooms, r) /\ c \in ioRooms[r]) =>
                FindUserRoom(handshake[c], r) # None

\* the last step sent the event ev about user u and room r to some socket
Notified(ev, u, r) ==
    \E i \in 1..Len(emitted) :
        /\ emitted[i].ev = ev
        /\ emitted[i].userId = u
        /\ emitted[i].room = r
        /\ emitted[i].to # {}

\* the last step emitted the event ev about user u and room r
Emitted(ev, u, r) ==
    \E i \in 1..Len(emitted) :
        /\ emitted[i].ev = ev
        /\ emitted[i].userId = u
        /\ emitted[i].room = r

\* C38: provided pending timers fire, every userTyping notice about a room and
\* a user with a socket among its participants, that reached a socket, is
\* eventually followed by a userStoppedTyping about that user and room,
\* however the typing entry ends.
C38_TypingEventuallyStops ==
    \A u \in Users, r \in Rooms :
        (/\ Notified("userTyping", u, r)
         /\ \E c \in ParticipantsOf(activeRooms, r) : handshake[c] = u)
            ~> Emitted("userStoppedTyping", u, r)

=============================================================================
